---- MODULE Spec2Model ----
(***************************************************************************)
(* Model of ConnectionPool (src/ConnectPool.cpp): a bounded pool of        *)
(* FakeConnection objects shared by worker threads, guarded by the mutex   *)
(* mt_ and the condition variable cv_, and read by a monitoring thread     *)
(* through the accessors PoolSize / ConnectionsAlive / ConnectionsInUse.   *)
(*                                                                         *)
(* Every statement of GetConnection and FreeConnection that reads or       *)
(* writes a member of the pool is one step of the calling thread, so that  *)
(* the unlocked accessors can observe the state between two statements.    *)
(*                                                                         *)
(* The module also holds the bundled scenario of that file (ThreadFunc and *)
(* main) and a model of the Shell of src/main.cpp, each with its own       *)
(* specification.                                                          *)
(***************************************************************************)
EXTENDS Integers, Sequences, FiniteSets, TLC

(***************************************************************************)
(* Bounds of the model.                                                    *)
(***************************************************************************)
\* number of worker threads that use the pool
NumThreads == 3
\* largest capacity handed to the constructor
MaxPoolSize == 2
\* number of GetConnection calls the threads may issue altogether
MaxCalls == 6

Threads == 1..NumThreads

\* iterations of the loop of ThreadFunc that every worker of the bundled
\* scenario performs (bounded stand-in for its five messages)
Cycles == 2

(***************************************************************************)
(* size_t arithmetic.  size_t is 64 bits wide in the build; the model      *)
(* keeps the wrap-around of unsigned arithmetic at the widest value the    *)
(* checker's integers have.                                                *)
(***************************************************************************)
SIZE_MAX == 2147483647

\* faulty variant of SizeDec: the value is not decremented
SizeDecKeeps(x) == x

SizeDec(x) == IF x = 0 THEN SIZE_MAX ELSE x - 1

SizeInc(x) == IF x = SIZE_MAX THEN 0 ELSE x + 1

SizeSub(a, b) == IF a >= b THEN a - b ELSE (SIZE_MAX - (b - a)) + 1

(***************************************************************************)
(* std::stoi(threadId): skips leading white space, takes an optional sign  *)
(* and then the longest run of decimal digits; throws invalid_argument     *)
(* when there is no digit and out_of_range when the value does not fit an  *)
(* int.  A string is a sequence of one-character strings.                  *)
(***************************************************************************)
INT_MAX == 2147483647

DigitVal == [c \in {"0", "1", "2", "3", "4", "5", "6", "7", "8", "9"} |->
               CASE c = "0" -> 0 [] c = "1" -> 1 [] c = "2" -> 2 [] c = "3" -> 3
                 [] c = "4" -> 4 [] c = "5" -> 5 [] c = "6" -> 6 [] c = "7" -> 7
                 [] c = "8" -> 8 [] c = "9" -> 9]

IsDigit(c) == c \in DOMAIN DigitVal

RECURSIVE SkipSpace(_, _)
SkipSpace(s, i) ==
    IF i <= Len(s) /\ s[i] = " " THEN SkipSpace(s, i + 1) ELSE i

\* accumulates the digits from position i on; neg: the number is negative and
\* is accumulated below zero (INT_MIN = -INT_MAX - 1 has no positive twin)
RECURSIVE StoiDigits(_, _, _, _, _)
StoiDigits(s, i, acc, neg, any) ==
    IF i > Len(s) \/ ~IsDigit(s[i])
    THEN IF any THEN [ok |-> TRUE, val |-> acc]
                ELSE [ok |-> FALSE, val |-> 0]
    ELSE LET d == DigitVal[s[i]]
         IN  IF neg
             THEN IF acc < ((0 - INT_MAX) - 1 + d + 9) \div 10
                  THEN [ok |-> FALSE, val |-> 0]
                  ELSE StoiDigits(s, i + 1, acc * 10 - d, neg, TRUE)
             ELSE IF acc > (INT_MAX - d) \div 10
                  THEN [ok |-> FALSE, val |-> 0]
                  ELSE StoiDigits(s, i + 1, acc * 10 + d, neg, TRUE)

Stoi(s) ==
    LET i == SkipSpace(s, 1)
    IN  IF i <= Len(s) /\ s[i] = "-" THEN StoiDigits(s, i + 1, 0, TRUE, FALSE)
        ELSE IF i <= Len(s) /\ s[i] = "+" THEN StoiDigits(s, i + 1, 0, FALSE, FALSE)
        ELSE StoiDigits(s, i, 0, FALSE, FALSE)

\* the thread-id strings handed to GetConnection: the hexadecimal form of the
\* expected output ("0x1": stoi reads the leading 0 and stops), a decimal
\* thread id wider than an int, and a string without a digit
ThreadIdInputs ==
    { <<"0", "x", "1">>,
      <<"1", "4", "0", "2", "4", "5", "1", "2", "0", "6", "0", "3", "9", "0", "4">>,
      <<"x">> }

(***************************************************************************)
(* std::vector<ConnectionPtr>: the operations the pool uses.               *)
(***************************************************************************)
\* faulty variant of VecPushBack: the element is not stored
VecPushBackLoses(v, x) == v

VecPushBack(v, x) == Append(v, x)

\* faulty variant of VecBack: the oldest element instead of the newest
VecFront(v) == v[1]

VecBack(v) == v[Len(v)]

\* faulty variant of VecPopBack: the element is not removed
VecPopBackKeeps(v) == v

VecPopBack(v) == SubSeq(v, 1, Len(v) - 1)

(***************************************************************************)
(* State.                                                                  *)
(*   constructed        the ConnectionPool object exists                   *)
(*   poolSize_, free_, connectionsAlive_, connections_                     *)
(*                      the members of the pool; connections_ holds        *)
(*                      references into heap                               *)
(*   mt_                the thread that holds the mutex, 0 when unlocked   *)
(*   cvWaiters          the threads blocked inside cv_.wait                *)
(*   heap               the FakeConnection objects made so far: heap[o]    *)
(*                      is the id of object o                              *)
(*   pc, conn           per thread: its position and the handle it holds   *)
(*                      (0 is the empty shared_ptr)                        *)
(*   calls              the calls of GetConnection issued so far           *)
(*   mpc, mInUse, mAlive                                                   *)
(*                      the monitoring loop of main and what it sampled    *)
(* History variables, written but never read by the program:               *)
(*   getsReturned, freesCompleted, createFailures                          *)
(*                      calls of GetConnection that returned a handle,     *)
(*                      calls of FreeConnection that returned, calls of    *)
(*                      GetConnection that ended in an exception           *)
(*   released           the objects that were handed to FreeConnection     *)
(*   lastOp             the last call that left the locked section after   *)
(*                      changing free_: "get", "free" or "none"            *)
(*   takeConns, takeAlive, takeFree                                        *)
(*                      connections_, connectionsAlive_ and free_ as they  *)
(*                      were when a caller last took a slot (--free_)      *)
(*   recheck            the thread that has left cv_.wait's sleep, holds   *)
(*                      the mutex again and has not yet tested the         *)
(*                      predicate again, 0 when there is none              *)
(*   rewaited           the thread whose going back to sleep after such a  *)
(*                      test was the latest step taken, 0 otherwise        *)
(***************************************************************************)
VARIABLES constructed, poolSize_, free_, connectionsAlive_, connections_,
          mt_, cvWaiters, heap, pc, conn, calls,
          mpc, mInUse, mAlive,
          getsReturned, freesCompleted, createFailures, released, lastOp,
          takeConns, takeAlive, takeFree,
          recheck, rewaited

\* the bundled scenario (ThreadFunc): iter[t] is the number of iterations of
\* its loop that worker t has started
VARIABLES iter

scenVars == <<iter>>

\* the Shell of src/main.cpp and the file system it works on:
\*   fs       the file system: the existing paths (sequences of names below
\*            the directory the process runs in, <<>>), each a directory or a
\*            file with its content
\*   cwd      Shell::cwd, the components appended to the start directory
\*   command  the command line of the last ExecuteCommand call
\*   out      what that call wrote to its stream out
\*   ret      the value it returned (NoRet when an exception left the call)
\*   threw    an exception left the call
\*   fsPre, cwdPre   fs and cwd when the call began
VARIABLES fs, cwd, command, out, ret, threw, fsPre, cwdPre

shellVars == <<fs, cwd, command, out, ret, threw, fsPre, cwdPre>>

\* the state the pool's operations do not touch
otherVars == <<scenVars, shellVars>>

poolVars == <<constructed, poolSize_, free_, connectionsAlive_, connections_,
              mt_, cvWaiters, heap>>

threadVars == <<pc, conn, calls>>

monVars == <<mpc, mInUse, mAlive>>

histVars == <<getsReturned, freesCompleted, createFailures, released, lastOp,
              takeConns, takeAlive, takeFree>>

waitVars == <<recheck, rewaited>>

\* Every step but a waiter's return to sleep: no re-check starts or ends.
NoRewait ==
    /\ rewaited' = 0
    /\ UNCHANGED recheck

vars == <<poolVars, threadVars, monVars, histVars, waitVars, otherVars>>

(***************************************************************************)
(* The accessors.  None of them locks mt_.                                 *)
(***************************************************************************)
PoolSize == poolSize_

ConnectionsAlive == connectionsAlive_

ConnectionsInUse == SizeSub(poolSize_, free_)

\* faulty variant of WaitPred: a caller is admitted with no slot left
WaitPredAdmitsAll(f) == f >= 0

\* the predicate of cv_.wait
WaitPred(f) == f > 0

Init ==
    /\ constructed = FALSE
    /\ poolSize_ = 0
    /\ free_ = 0
    /\ connectionsAlive_ = 0
    /\ connections_ = <<>>
    /\ mt_ = 0
    /\ cvWaiters = {}
    /\ heap = <<>>
    /\ pc = [t \in Threads |-> "idle"]
    /\ conn = [t \in Threads |-> 0]
    /\ calls = 0
    /\ mpc = "spin"
    /\ mInUse = 0
    /\ mAlive = 0
    /\ getsReturned = 0
    /\ freesCompleted = 0
    /\ createFailures = 0
    /\ released = {}
    /\ lastOp = "none"
    /\ takeConns = <<>>
    /\ takeAlive = 0
    /\ takeFree = 0
    /\ recheck = 0
    /\ rewaited = 0
    /\ iter = [t \in Threads |-> 0]
    /\ fs = [p \in {<<>>} |-> [dir |-> TRUE, data |-> ""]]
    /\ cwd = <<>>
    /\ command = <<>>
    /\ out = ""
    /\ ret = 0
    /\ threw = FALSE
    /\ fsPre = [p \in {<<>>} |-> [dir |-> TRUE, data |-> ""]]
    /\ cwdPre = <<>>

(***************************************************************************)
(* ConnectionPool(size_t poolSize): poolSize_(poolSize), free_(poolSize).  *)
(* The parameter is unsigned and the constructor tests nothing.            *)
(***************************************************************************)
Construct(n) ==
    /\ ~constructed
    /\ constructed' = TRUE
    /\ poolSize_' = n
    /\ free_' = n
    /\ UNCHANGED <<connectionsAlive_, connections_, mt_, cvWaiters, heap>>
    /\ UNCHANGED <<threadVars, monVars, histVars>>
    /\ UNCHANGED otherVars
    /\ NoRewait

(***************************************************************************)
(* GetConnection(threadId)                                                 *)
(***************************************************************************)
\* std::unique_lock lock(mt_): the call starts when the thread gets the mutex
GetLock(t) ==
    /\ constructed
    /\ pc[t] = "idle"
    /\ calls < MaxCalls
    /\ calls' = calls + 1
    /\ mt_ = 0
    /\ mt_' = t
    /\ pc' = [pc EXCEPT ![t] = "get_wait"]
    /\ UNCHANGED <<constructed, poolSize_, free_, connectionsAlive_,
                   connections_, cvWaiters, heap, conn>>
    /\ UNCHANGED <<monVars, histVars>>
    /\ UNCHANGED otherVars
    /\ NoRewait

\* inside cv_.wait: a woken thread takes the mutex again before it tests the
\* predicate
GetRelock(t) ==
    /\ pc[t] = "get_woken"
    /\ mt_ = 0
    /\ mt_' = t
    /\ pc' = [pc EXCEPT ![t] = "get_wait"]
    /\ recheck' = t
    /\ rewaited' = 0
    /\ UNCHANGED <<constructed, poolSize_, free_, connectionsAlive_,
                   connections_, cvWaiters, heap, conn, calls>>
    /\ UNCHANGED <<monVars, histVars>>
    /\ UNCHANGED otherVars

\* faulty variant of GetWait: a thread that was woken does not test the
\* predicate again
GetWaitNoRecheck(t) ==
    /\ pc[t] = "get_wait"
    /\ mt_ = t
    /\ IF WaitPred(free_) \/ recheck = t
       THEN /\ pc' = [pc EXCEPT ![t] = "get_dec"]
            /\ UNCHANGED <<mt_, cvWaiters>>
       ELSE /\ pc' = [pc EXCEPT ![t] = "get_blocked"]
            /\ cvWaiters' = cvWaiters \cup {t}
            /\ mt_' = 0
    /\ rewaited' = 0
    /\ recheck' = 0
    /\ UNCHANGED <<constructed, poolSize_, free_, connectionsAlive_,
                   connections_, heap, conn, calls>>
    /\ UNCHANGED <<monVars, histVars>>
    /\ UNCHANGED otherVars

\* cv_.wait(lock, pred): with the mutex held, test the predicate; when it is
\* false, release the mutex and block, in one atomic step
GetWait(t) ==
    /\ pc[t] = "get_wait"
    /\ mt_ = t
    /\ IF WaitPred(free_)
       THEN /\ pc' = [pc EXCEPT ![t] = "get_dec"]
            /\ rewaited' = 0
            /\ UNCHANGED <<mt_, cvWaiters>>
       ELSE /\ pc' = [pc EXCEPT ![t] = "get_blocked"]
            /\ cvWaiters' = cvWaiters \cup {t}
            /\ mt_' = 0
            /\ rewaited' = IF recheck = t THEN t ELSE 0
    /\ recheck' = 0
    /\ UNCHANGED <<constructed, poolSize_, free_, connectionsAlive_,
                   connections_, heap, conn, calls>>
    /\ UNCHANGED <<monVars, histVars>>
    /\ UNCHANGED otherVars

\* a condition variable may wake a waiter without a notification
SpuriousWake(t) ==
    /\ pc[t] = "get_blocked"
    /\ t \in cvWaiters
    /\ cvWaiters' = cvWaiters \ {t}
    /\ pc' = [pc EXCEPT ![t] = "get_woken"]
    /\ UNCHANGED <<constructed, poolSize_, free_, connectionsAlive_,
                   connections_, mt_, heap, conn, calls>>
    /\ UNCHANGED <<monVars, histVars>>
    /\ UNCHANGED otherVars
    /\ NoRewait

\* --free_; then the test connections_.size() == 0
GetDec(t) ==
    /\ pc[t] = "get_dec"
    /\ mt_ = t
    /\ free_' = SizeDec(free_)
    /\ pc' = [pc EXCEPT ![t] = IF Len(connections_) = 0 THEN "get_make"
                                                        ELSE "get_pop"]
    /\ takeConns' = connections_
    /\ takeAlive' = connectionsAlive_
    /\ takeFree' = free_
    /\ UNCHANGED <<constructed, poolSize_, connectionsAlive_, connections_,
                   mt_, cvWaiters, heap, conn, calls>>
    /\ UNCHANGED <<monVars, getsReturned, freesCompleted, createFailures,
                   released, lastOp>>
    /\ UNCHANGED otherVars
    /\ NoRewait

\* auto NewPtr = std::make_shared<FakeConnection>(stoi(threadId)): when stoi
\* throws, the exception leaves GetConnection and the unique_lock unlocks
GetMake(t, id) ==
    /\ pc[t] = "get_make"
    /\ mt_ = t
    /\ IF Stoi(id).ok
       THEN /\ heap' = Append(heap, Stoi(id).val)
            /\ conn' = [conn EXCEPT ![t] = Len(heap) + 1]
            /\ pc' = [pc EXCEPT ![t] = "get_inc"]
            /\ UNCHANGED <<mt_, createFailures, lastOp>>
       ELSE /\ mt_' = 0
            /\ pc' = [pc EXCEPT ![t] = "idle"]
            /\ createFailures' = createFailures + 1
            /\ lastOp' = "get"
            /\ UNCHANGED <<heap, conn>>
    /\ UNCHANGED <<constructed, poolSize_, free_, connectionsAlive_,
                   connections_, cvWaiters, calls>>
    /\ UNCHANGED <<monVars, getsReturned, freesCompleted, released,
                   takeConns, takeAlive, takeFree>>
    /\ UNCHANGED otherVars
    /\ NoRewait

\* ++connectionsAlive_
GetInc(t) ==
    /\ pc[t] = "get_inc"
    /\ mt_ = t
    /\ connectionsAlive_' = SizeInc(connectionsAlive_)
    /\ pc' = [pc EXCEPT ![t] = "get_ret"]
    /\ UNCHANGED <<constructed, poolSize_, free_, connections_, mt_,
                   cvWaiters, heap, conn, calls>>
    /\ UNCHANGED <<monVars, histVars>>
    /\ UNCHANGED otherVars
    /\ NoRewait

\* faulty variant of GetPop: the reuse of a cached connection is counted as
\* a creation
GetPopCountsAlive(t) ==
    /\ pc[t] = "get_pop"
    /\ mt_ = t
    /\ conn' = [conn EXCEPT ![t] = VecBack(connections_)]
    /\ connections_' = VecPopBack(connections_)
    /\ connectionsAlive_' = SizeInc(connectionsAlive_)
    /\ pc' = [pc EXCEPT ![t] = "get_ret"]
    /\ UNCHANGED <<constructed, poolSize_, free_, mt_,
                   cvWaiters, heap, calls>>
    /\ UNCHANGED <<monVars, histVars>>
    /\ UNCHANGED otherVars
    /\ NoRewait

\* ConnectionPtr FreePtr = connections_.back(); connections_.pop_back()
GetPop(t) ==
    /\ pc[t] = "get_pop"
    /\ mt_ = t
    /\ conn' = [conn EXCEPT ![t] = VecBack(connections_)]
    /\ connections_' = VecPopBack(connections_)
    /\ pc' = [pc EXCEPT ![t] = "get_ret"]
    /\ UNCHANGED <<constructed, poolSize_, free_, connectionsAlive_, mt_,
                   cvWaiters, heap, calls>>
    /\ UNCHANGED <<monVars, histVars>>
    /\ UNCHANGED otherVars
    /\ NoRewait

\* return NewPtr / return FreePtr: the unique_lock unlocks, the caller owns
\* the handle and uses the connection
GetRet(t) ==
    /\ pc[t] = "get_ret"
    /\ mt_ = t
    /\ mt_' = 0
    /\ pc' = [pc EXCEPT ![t] = "use"]
    /\ getsReturned' = getsReturned + 1
    /\ lastOp' = "get"
    /\ UNCHANGED <<constructed, poolSize_, free_, connectionsAlive_,
                   connections_, cvWaiters, heap, conn, calls>>
    /\ UNCHANGED <<monVars, freesCompleted, createFailures, released,
                   takeConns, takeAlive, takeFree>>
    /\ UNCHANGED otherVars
    /\ NoRewait

(***************************************************************************)
(* FreeConnection(connection)                                              *)
(***************************************************************************)
\* std::unique_lock lock(mt_), by a thread that holds a handle
FreeLock(t) ==
    /\ pc[t] = "use"
    /\ mt_ = 0
    /\ mt_' = t
    /\ pc' = [pc EXCEPT ![t] = "free_push"]
    /\ UNCHANGED <<constructed, poolSize_, free_, connectionsAlive_,
                   connections_, cvWaiters, heap, conn, calls>>
    /\ UNCHANGED <<monVars, histVars>>
    /\ UNCHANGED otherVars
    /\ NoRewait

\* faulty variant of FreePush: the handle is emptied before it is stored, so
\* an empty handle goes into the idle cache
FreePushMovedFrom(t) ==
    /\ pc[t] = "free_push"
    /\ mt_ = t
    /\ connections_' = VecPushBack(connections_, 0)
    /\ conn' = [conn EXCEPT ![t] = 0]
    /\ released' = released \cup {conn[t]}
    /\ pc' = [pc EXCEPT ![t] = "free_inc"]
    /\ UNCHANGED <<constructed, poolSize_, free_, connectionsAlive_, mt_,
                   cvWaiters, heap, calls>>
    /\ UNCHANGED <<monVars, getsReturned, freesCompleted, createFailures,
                   lastOp, takeConns, takeAlive, takeFree>>
    /\ UNCHANGED otherVars
    /\ NoRewait

\* connections_.push_back(std::move(connection)): the caller's handle is
\* left empty
FreePush(t) ==
    /\ pc[t] = "free_push"
    /\ mt_ = t
    /\ connections_' = VecPushBack(connections_, conn[t])
    /\ conn' = [conn EXCEPT ![t] = 0]
    /\ released' = released \cup {conn[t]}
    /\ pc' = [pc EXCEPT ![t] = "free_inc"]
    /\ UNCHANGED <<constructed, poolSize_, free_, connectionsAlive_, mt_,
                   cvWaiters, heap, calls>>
    /\ UNCHANGED <<monVars, getsReturned, freesCompleted, createFailures,
                   lastOp, takeConns, takeAlive, takeFree>>
    /\ UNCHANGED otherVars
    /\ NoRewait

\* faulty variant of FreeInc: the release counts two free slots
FreeIncTwice(t) ==
    /\ pc[t] = "free_inc"
    /\ mt_ = t
    /\ free_' = SizeInc(SizeInc(free_))
    /\ pc' = [pc EXCEPT ![t] = "free_notify"]
    /\ UNCHANGED <<constructed, poolSize_, connectionsAlive_, connections_,
                   mt_, cvWaiters, heap, conn, calls>>
    /\ UNCHANGED <<monVars, histVars>>
    /\ UNCHANGED otherVars
    /\ NoRewait

\* ++free_
FreeInc(t) ==
    /\ pc[t] = "free_inc"
    /\ mt_ = t
    /\ free_' = SizeInc(free_)
    /\ pc' = [pc EXCEPT ![t] = "free_notify"]
    /\ UNCHANGED <<constructed, poolSize_, connectionsAlive_, connections_,
                   mt_, cvWaiters, heap, conn, calls>>
    /\ UNCHANGED <<monVars, histVars>>
    /\ UNCHANGED otherVars
    /\ NoRewait

\* faulty variant of FreeNotify: the call returns without cv_.notify_one()
FreeWithoutNotify(t) ==
    /\ pc[t] = "free_notify"
    /\ mt_ = t
    /\ pc' = [pc EXCEPT ![t] = "idle"]
    /\ mt_' = 0
    /\ freesCompleted' = freesCompleted + 1
    /\ lastOp' = "free"
    /\ UNCHANGED <<constructed, poolSize_, free_, connectionsAlive_,
                   connections_, cvWaiters, heap, conn, calls>>
    /\ UNCHANGED <<monVars, getsReturned, createFailures, released,
                   takeConns, takeAlive, takeFree>>
    /\ UNCHANGED otherVars
    /\ NoRewait

\* cv_.notify_one(), then the unique_lock unlocks: one blocked thread, if
\* there is any, leaves the wait and has to take the mutex again
FreeNotify(t) ==
    /\ pc[t] = "free_notify"
    /\ mt_ = t
    /\ IF cvWaiters = {}
       THEN /\ pc' = [pc EXCEPT ![t] = "idle"]
            /\ UNCHANGED cvWaiters
       ELSE \E w \in cvWaiters :
               /\ cvWaiters' = cvWaiters \ {w}
               /\ pc' = [pc EXCEPT ![t] = "idle", ![w] = "get_woken"]
    /\ mt_' = 0
    /\ freesCompleted' = freesCompleted + 1
    /\ lastOp' = "free"
    /\ UNCHANGED <<constructed, poolSize_, free_, connectionsAlive_,
                   connections_, heap, conn, calls>>
    /\ UNCHANGED <<monVars, getsReturned, createFailures, released,
                   takeConns, takeAlive, takeFree>>
    /\ UNCHANGED otherVars
    /\ NoRewait

(***************************************************************************)
(* The monitoring loop of main: it spins until ConnectionsAlive() is not   *)
(* zero, then repeats ConnectionsInUse(), ConnectionsAlive() and the two   *)
(* assertions.  The accessors take no lock: each read races with the       *)
(* writes of the worker threads and yields the value the member holds      *)
(* before or after a concurrent write, which the interleaving of the       *)
(* monitor's steps with the workers' steps covers.  No step of the monitor *)
(* is forced, so a build whose spin loop never sees the write is covered   *)
(* as well.                                                                *)
(***************************************************************************)
\* while (!pool.ConnectionsAlive()) {}
MonitorSpin ==
    /\ constructed
    /\ mpc = "spin"
    /\ ConnectionsAlive # 0
    /\ mpc' = "sample"
    /\ UNCHANGED <<poolVars, threadVars, histVars, mInUse, mAlive>>
    /\ UNCHANGED otherVars
    /\ NoRewait

MonitorInUse ==
    /\ mpc = "sample"
    /\ mInUse' = ConnectionsInUse
    /\ mpc' = "alive"
    /\ UNCHANGED <<poolVars, threadVars, histVars, mAlive>>
    /\ UNCHANGED otherVars
    /\ NoRewait

MonitorAlive ==
    /\ mpc = "alive"
    /\ mAlive' = ConnectionsAlive
    /\ mpc' = "check"
    /\ UNCHANGED <<poolVars, threadVars, histVars, mInUse>>
    /\ UNCHANGED otherVars
    /\ NoRewait

\* assert(connectionsInUse <= connectionsAlive);
\* assert(connectionsAlive <= poolSize); then the next round
MonitorCheck ==
    /\ mpc = "check"
    /\ mpc' = "sample"
    /\ mInUse' = 0
    /\ mAlive' = 0
    /\ UNCHANGED <<poolVars, threadVars, histVars>>
    /\ UNCHANGED otherVars
    /\ NoRewait

(***************************************************************************)
(* Specifications.                                                         *)
(***************************************************************************)
ThreadStep(t) ==
    \/ GetLock(t)
    \/ GetRelock(t)
    \/ GetWait(t)
    \/ SpuriousWake(t)
    \/ GetDec(t)
    \/ \E id \in ThreadIdInputs : GetMake(t, id)
    \/ GetInc(t)
    \/ GetPop(t)
    \/ GetRet(t)
    \/ FreeLock(t)
    \/ FreePush(t)
    \/ FreeInc(t)
    \/ FreeNotify(t)

Next ==
    \/ \E n \in 0..MaxPoolSize : Construct(n)
    \/ \E t \in Threads : ThreadStep(t)

\* the pool and its worker threads
Spec == Init /\ [][Next]_vars

NextMon ==
    \/ Next
    \/ MonitorSpin
    \/ MonitorInUse
    \/ MonitorAlive
    \/ MonitorCheck

\* the pool, its worker threads and the monitoring loop
MonSpec == Init /\ [][NextMon]_vars

\* the steps a thread takes once it is inside a call, and the release of a
\* handle it holds: the scheduler runs every thread that can run
Progress(t) ==
    \/ GetRelock(t)
    \/ GetWait(t)
    \/ GetDec(t)
    \/ \E id \in ThreadIdInputs : GetMake(t, id)
    \/ GetInc(t)
    \/ GetPop(t)
    \/ GetRet(t)
    \/ FreeLock(t)
    \/ FreePush(t)
    \/ FreeInc(t)
    \/ FreeNotify(t)

\* the pool and its worker threads under a fair scheduler; issuing a new call
\* and a spurious wake-up are not forced
FairSpec == Spec /\ \A t \in Threads : WF_vars(Progress(t))

(***************************************************************************)
(* Notions the properties are stated with.                                 *)
(***************************************************************************)
\* no thread is inside the locked section of a pool operation
Quiescent == constructed /\ mt_ = 0

\* thread t is inside cv_.wait: asleep, or woken and not yet holding the mutex
Blocked(t) == pc[t] \in {"get_blocked", "get_woken"}

\* thread t is inside FreeConnection
InFree(t) == pc[t] \in {"free_push", "free_inc", "free_notify"}

\* the threads whose handle refers to object o
Holders(o) == {t \in Threads : conn[t] = o}

\* the positions of the idle cache that refer to object o
CachePositions(o) == {i \in 1..Len(connections_) : connections_[i] = o}

\* thread t has taken its slot (--free_) and has not left the locked section
InTake(t) == mt_ = t /\ pc[t] \in {"get_make", "get_inc", "get_pop", "get_ret"}

(***************************************************************************)
(* C1: at every point where no thread is inside the locked section of      *)
(* GetConnection or FreeConnection,                                        *)
(* ConnectionsInUse() <= ConnectionsAlive() <= PoolSize().                 *)
(***************************************************************************)
QuiescentCountsOrdered ==
    Quiescent => /\ ConnectionsInUse <= ConnectionsAlive
                 /\ ConnectionsAlive <= PoolSize

\* the same ordering in the runs in which no creation has failed
QuiescentCountsOrderedUnlessCreateFailed ==
    (Quiescent /\ createFailures = 0) =>
        /\ ConnectionsInUse <= ConnectionsAlive
        /\ ConnectionsAlive <= PoolSize

(***************************************************************************)
(* C2: every created connection is at every instant either held by exactly *)
(* one caller or stored exactly once in the idle cache connections_, never *)
(* both; no two callers hold the same connection.                          *)
(***************************************************************************)
ExclusiveOwnership ==
    /\ \A t \in Threads : conn[t] \in 0..Len(heap)
    /\ \A i \in 1..Len(connections_) : connections_[i] \in 1..Len(heap)
    /\ \A o \in 1..Len(heap) :
          Cardinality(Holders(o)) + Cardinality(CachePositions(o)) = 1

\* two callers use connections while a connection that went through the
\* idle cache is in use again
ExclusiveOwnershipWitness ==
    \E t, u \in Threads :
       /\ t # u
       /\ pc[t] = "use" /\ pc[u] = "use"
       /\ conn[t] \in released
       /\ conn[u] # conn[t]

(***************************************************************************)
(* C3: when more calls of GetConnection than PoolSize() were issued and    *)
(* FreeConnection was not called yet, exactly PoolSize() calls return and  *)
(* the others stay blocked; and always the calls that returned are at most *)
(* PoolSize() plus the completed calls of FreeConnection.                  *)
(***************************************************************************)
\* every call issued so far has returned, is asleep in cv_.wait or has ended
Settled ==
    /\ Quiescent
    /\ \A t \in Threads : pc[t] \in {"idle", "use", "get_blocked"}

ReturnsBoundedByFrees == getsReturned <= poolSize_ + freesCompleted

ExactlyPoolSizeReturn ==
    (Settled /\ freesCompleted = 0 /\ calls > poolSize_
       /\ \A t \in Threads : ~InFree(t)) =>
        /\ getsReturned = poolSize_
        /\ Cardinality({t \in Threads : pc[t] = "get_blocked"}) = calls - poolSize_

BlockedUntilFreed == ExactlyPoolSizeReturn /\ ReturnsBoundedByFrees

\* the first half in the runs in which no creation has failed
ExactlyPoolSizeReturnUnlessCreateFailed ==
    createFailures = 0 => ExactlyPoolSizeReturn

(***************************************************************************)
(* C4: under fair scheduling, whenever a thread is blocked inside          *)
(* GetConnection and free_ > 0, some call of GetConnection eventually      *)
(* returns; and no waiter is left asleep with free_ > 0 while nothing      *)
(* else runs.                                                              *)
(***************************************************************************)
\* a thread sleeps in cv_.wait with free_ > 0, the mutex is free and no other
\* thread is woken or inside an operation
LostWakeup ==
    /\ cvWaiters # {}
    /\ free_ > 0
    /\ mt_ = 0
    /\ \A t \in Threads : pc[t] \in {"idle", "use", "get_blocked"}

NoDeadlockWithCapacity ==
    /\ []~LostWakeup
    /\ \A n \in 0..MaxCalls :
          ((\E t \in Threads : Blocked(t)) /\ free_ > 0 /\ getsReturned = n)
              ~> (getsReturned > n)

\* a FreeConnection has completed and woken a blocked thread, while another
\* thread is still asleep
NoDeadlockWithCapacityWitness ==
    /\ free_ > 0
    /\ lastOp = "free"
    /\ mt_ = 0
    /\ \E t, u \in Threads : pc[t] = "get_woken" /\ pc[u] = "get_blocked"

(***************************************************************************)
(* C5: when creating the connection inside GetConnection throws, the call  *)
(* fails for that caller and free_ has the value it had before the call    *)
(* took its slot.                                                          *)
(***************************************************************************)
SlotReturnedOnCreateFailure ==
    [][\A t \in Threads :
          (pc[t] = "get_make" /\ pc'[t] = "idle") =>
              /\ conn'[t] = 0
              /\ free_' = takeFree]_vars

(***************************************************************************)
(* C6: no ConnectionPool with PoolSize() = 0 exists, and no GetConnection  *)
(* call is issued against a pool of capacity 0.                            *)
(***************************************************************************)
CapacityPositive ==
    /\ constructed => poolSize_ > 0
    /\ calls > 0 => poolSize_ > 0

(***************************************************************************)
(* C7: a monitoring thread that calls ConnectionsInUse() and then          *)
(* ConnectionsAlive() never obtains ConnectionsInUse() >                   *)
(* ConnectionsAlive(), nor ConnectionsAlive() > PoolSize().                *)
(***************************************************************************)
MonitorNeverTorn ==
    mpc = "check" => /\ mInUse <= mAlive
                     /\ mAlive <= poolSize_

(***************************************************************************)
(* C8: every read and write of free_, connections_ and connectionsAlive_   *)
(* by GetConnection, FreeConnection, ConnectionsAlive and ConnectionsInUse *)
(* happens while the calling thread holds mt_, and mt_ is not held while   *)
(* the caller uses the connection.                                         *)
(***************************************************************************)
\* the monitoring thread, as a holder of the mutex
Monitor == NumThreads + 1

\* thread t reads or writes a member of the pool in this step
Accesses(t) ==
    \/ GetWait(t)
    \/ GetDec(t)
    \/ GetInc(t)
    \/ GetPop(t)
    \/ FreePush(t)
    \/ FreeInc(t)

AllAccessesLocked ==
    /\ [](\A t \in Threads : pc[t] = "use" => mt_ # t)
    /\ [][/\ \A t \in Threads : Accesses(t) => mt_ = t
          /\ (MonitorSpin \/ MonitorInUse \/ MonitorAlive) => mt_ = Monitor]_vars

(***************************************************************************)
(* C9: a FakeConnection is constructed at most PoolSize() times, and       *)
(* ConnectionsAlive() <= PoolSize() in every reachable state, also in the  *)
(* middle of an operation.                                                 *)
(***************************************************************************)
AliveNeverExceedsPoolSize ==
    constructed => /\ Len(heap) <= PoolSize
                   /\ ConnectionsAlive <= PoolSize

\* the pool is full, more calls were issued than it has connections, and a
\* caller is in the middle of a later call
AliveNeverExceedsPoolSizeWitness ==
    /\ poolSize_ = MaxPoolSize
    /\ connectionsAlive_ = poolSize_
    /\ getsReturned > poolSize_
    /\ \E t \in Threads : InTake(t)

(***************************************************************************)
(* C10: a GetConnection call that takes its slot while connections_ is     *)
(* non-empty returns a connection that was released into the cache before, *)
(* removes it from the cache and leaves ConnectionsAlive() unchanged; the  *)
(* first call to take a slot after a FreeConnection reuses a connection.   *)
(***************************************************************************)
ReusesIdleConnection ==
    \A t \in Threads :
       /\ (InTake(t) /\ takeConns # <<>>) => pc[t] \in {"get_pop", "get_ret"}
       /\ (InTake(t) /\ lastOp = "free") => takeConns # <<>>
       /\ (pc[t] = "get_ret" /\ takeConns # <<>>) =>
             /\ conn[t] = takeConns[Len(takeConns)]
             /\ conn[t] \in released
             /\ connections_ = SubSeq(takeConns, 1, Len(takeConns) - 1)
             /\ connectionsAlive_ = takeAlive

\* a call that found two idle connections right after a FreeConnection is
\* about to return
ReusesIdleConnectionWitness ==
    \E t \in Threads :
       /\ pc[t] = "get_ret"
       /\ Len(takeConns) = 2
       /\ lastOp = "free"

(***************************************************************************)
(* The bundled scenario: main constructs one pool, starts the workers,     *)
(* samples the accessors and asserts on the samples, then joins.  Every    *)
(* worker runs ThreadFunc: Cycles iterations of GetConnection, use,        *)
(* FreeConnection.  The pool's capacity is MaxPoolSize and the workers are *)
(* Threads, so that, as in main, there are more workers than connections.  *)
(* An exception that leaves GetConnection leaves ThreadFunc too and ends   *)
(* the process (std::terminate); a failed assert ends the process          *)
(* (abort).  A process that has ended takes no further step.               *)
(***************************************************************************)
Running == createFailures = 0 /\ mpc # "aborted"

\* ConnectionPool pool(5);
ScenConstruct == Running /\ Construct(MaxPoolSize)

\* the next iteration of the loop of ThreadFunc reaches GetConnection
ScenGetLock(t) ==
    /\ Running
    /\ constructed
    /\ pc[t] = "idle"
    /\ iter[t] < Cycles
    /\ iter' = [iter EXCEPT ![t] = iter[t] + 1]
    /\ calls' = calls + 1
    /\ mt_ = 0
    /\ mt_' = t
    /\ pc' = [pc EXCEPT ![t] = "get_wait"]
    /\ UNCHANGED <<constructed, poolSize_, free_, connectionsAlive_,
                   connections_, cvWaiters, heap, conn>>
    /\ UNCHANGED <<monVars, histVars>>
    /\ UNCHANGED shellVars
    /\ NoRewait

ScenGetRelock(t) == Running /\ GetRelock(t)

ScenGetWait(t) == Running /\ GetWait(t)

ScenSpuriousWake(t) == Running /\ SpuriousWake(t)

ScenGetDec(t) == Running /\ GetDec(t)

ScenGetMake(t) == Running /\ \E id \in ThreadIdInputs : GetMake(t, id)

ScenGetInc(t) == Running /\ GetInc(t)

ScenGetPop(t) == Running /\ GetPop(t)

ScenGetRet(t) == Running /\ GetRet(t)

ScenFreeLock(t) == Running /\ FreeLock(t)

ScenFreePush(t) == Running /\ FreePush(t)

ScenFreeInc(t) == Running /\ FreeInc(t)

ScenFreeNotify(t) == Running /\ FreeNotify(t)

ScenMonitorSpin == Running /\ MonitorSpin

ScenMonitorInUse == Running /\ MonitorInUse

ScenMonitorAlive == Running /\ MonitorAlive

\* the two asserts of main on the sampled values
AssertsHold == mInUse <= mAlive /\ mAlive <= poolSize_

\* both asserts hold: the next round of the monitoring loop
ScenMonitorCheck == Running /\ AssertsHold /\ MonitorCheck

\* an assert fails: abort()
ScenMonitorAbort ==
    /\ Running
    /\ mpc = "check"
    /\ ~AssertsHold
    /\ mpc' = "aborted"
    /\ UNCHANGED <<poolVars, threadVars, histVars, mInUse, mAlive>>
    /\ UNCHANGED otherVars
    /\ NoRewait

\* the steps of worker t that the scheduler eventually runs
ScenProgress(t) ==
    \/ ScenGetLock(t)
    \/ ScenGetRelock(t)
    \/ ScenGetWait(t)
    \/ ScenGetDec(t)
    \/ ScenGetMake(t)
    \/ ScenGetInc(t)
    \/ ScenGetPop(t)
    \/ ScenGetRet(t)
    \/ ScenFreeLock(t)
    \/ ScenFreePush(t)
    \/ ScenFreeInc(t)
    \/ ScenFreeNotify(t)

ScenThreadStep(t) ==
    \/ ScenProgress(t)
    \/ ScenSpuriousWake(t)

\* the pool and the workers of the scenario, without main's sampling loop
ScenWorkersNext ==
    \/ ScenConstruct
    \/ \E t \in Threads : ScenThreadStep(t)

ScenWorkersSpec == Init /\ [][ScenWorkersNext]_vars

\* a fair scheduler and a fair mutex: a worker whose next step is possible
\* again and again takes it (a worker waiting for the mutex is not overtaken
\* for ever); a spurious wake-up is never forced
ScenWorkersFairSpec ==
    /\ ScenWorkersSpec
    /\ WF_vars(ScenConstruct)
    /\ \A t \in Threads : SF_vars(ScenProgress(t))

ScenNext ==
    \/ ScenConstruct
    \/ \E t \in Threads : ScenThreadStep(t)
    \/ ScenMonitorSpin
    \/ ScenMonitorInUse
    \/ ScenMonitorAlive
    \/ ScenMonitorCheck
    \/ ScenMonitorAbort

\* the whole bundled scenario
ScenSpec == Init /\ [][ScenNext]_vars

\* worker t has returned from ThreadFunc
WorkerDone(t) == iter[t] = Cycles /\ pc[t] = "idle"

AllWorkersDone == constructed /\ \A t \in Threads : WorkerDone(t)

\* every connection that was created is in the idle cache
AllCreatedIdle ==
    \A o \in 1..Len(heap) : Cardinality(CachePositions(o)) = 1

(***************************************************************************)
(* C11.  In the bundled scenario, provided no creation of a connection     *)
(* fails, the workers do not stop before every one of them has finished    *)
(* its iterations: whenever no worker can take a step, all workers are     *)
(* done, ConnectionsInUse() is 0 and every created connection is in the    *)
(* idle cache.                                                             *)
(***************************************************************************)
ScenarioWorkersFinish ==
    (constructed /\ createFailures = 0
        /\ \A t \in Threads : ~ENABLED ScenThreadStep(t))
    => (AllWorkersDone /\ ConnectionsInUse = 0 /\ AllCreatedIdle)

\* the same under a fair scheduler, as termination: the workers finish
\* (or a creation fails), and once they have the pool is clean
ScenarioTerminatesClean ==
    /\ <>(AllWorkersDone \/ createFailures > 0)
    /\ [](AllWorkersDone => (ConnectionsInUse = 0 /\ AllCreatedIdle))

\* all workers are through their iterations
ScenarioFinished == AllWorkersDone /\ createFailures = 0

\* main's assert has ended the process while workers are still running
ScenarioAborted == mpc = "aborted" /\ ~AllWorkersDone

\* thread t holds the mutex and is about to evaluate the predicate of cv_.wait
AtWait(t) == pc[t] = "get_wait" /\ mt_ = t

\* the caller at the wait finds no idle connection and fewer than PoolSize()
\* created: it does not wait; a caller that has to wait finds no idle
\* connection and PoolSize() connections created; the call that took its slot
\* with an empty cache returns a connection it created, with
\* ConnectionsAlive() one higher
CreatesOrWaits(t) ==
    /\ (AtWait(t) /\ connections_ = <<>> /\ ConnectionsAlive < PoolSize)
          => WaitPred(free_)
    /\ (AtWait(t) /\ ~WaitPred(free_))
          => (connections_ = <<>> /\ ConnectionsAlive = PoolSize)
    /\ (pc[t] = "get_ret" /\ takeConns = <<>>)
          => /\ ConnectionsAlive = takeAlive + 1
             /\ conn[t] = Len(heap)
             /\ Holders(conn[t]) = {t}
             /\ free_ = takeFree - 1

(***************************************************************************)
(* C12.  A GetConnection call that finds no idle connection while fewer    *)
(* than PoolSize() connections have been created does not wait: it creates *)
(* a connection, increments ConnectionsAlive() by one and returns it.  A   *)
(* caller waits only when there is no idle connection and                  *)
(* ConnectionsAlive() equals PoolSize().                                   *)
(***************************************************************************)
CreatesWithoutWaiting == \A t \in Threads : CreatesOrWaits(t)

\* the same while no creation has failed
CreatesWithoutWaitingUnlessCreateFailed ==
    createFailures = 0 => CreatesWithoutWaiting

(***************************************************************************)
(* The Shell of src/main.cpp.  Texts (file contents, the stream out) are   *)
(* strings.  A command line is the sequence of its words and of the blanks *)
(* " " between them.  A path is the sequence of its components.            *)
(***************************************************************************)
\* longest file content, deepest path and longest cwd the model follows
MaxFileLen == 4
MaxDepth == 2
MaxCwdLen == 2

\* no value was returned
NoRet == 0 - 1

Dir == [dir |-> TRUE, data |-> ""]

File(text) == [dir |-> FALSE, data |-> text]

RECURSIVE Concat(_)
Concat(s) == IF s = <<>> THEN "" ELSE Head(s) \o Concat(Tail(s))

\* while (iss >> arg) args.push_back(arg): the words between white space
Tokenize(line) == SelectSeq(line, LAMBDA w : w # " ")

\* out << "$ " << command << '\n'
Prompt(line) == "$ " \o Concat(line) \o "\n"

\* fs::path(word): the components of the path a word names
PathOf(word) ==
    CASE word = "d/d" -> <<"d", "d">>
      [] word = "d/f" -> <<"d", "f">>
      [] word = "../d" -> <<"..", "d">>
      [] OTHER -> <<word>>

Parent(p) == SubSeq(p, 1, Len(p) - 1)

\* the operating system follows the components rest from the directory cur:
\* kind is "dir" or "file" for an existing target, "absent" when only the
\* last component is missing, "enoent" when a directory on the way is
\* missing and "enotdir" when a file stands where a directory is needed
RECURSIVE Resolve(_, _, _)
Resolve(f, cur, rest) ==
    IF rest = <<>>
    THEN [kind |-> IF cur \notin DOMAIN f THEN "absent"
                   ELSE IF f[cur].dir THEN "dir" ELSE "file",
          p |-> cur]
    ELSE IF cur \notin DOMAIN f THEN [kind |-> "enoent", p |-> cur]
    ELSE IF ~f[cur].dir THEN [kind |-> "enotdir", p |-> cur]
    ELSE Resolve(f,
                 IF Head(rest) = ".." THEN Parent(cur)
                                      ELSE Append(cur, Head(rest)),
                 Tail(rest))

Exists(r) == r.kind \in {"dir", "file"}

IsPrefix(p, q) == Len(p) <= Len(q) /\ SubSeq(q, 1, Len(p)) = p

\* the entries of directory p
Children(f, p) == {q \in DOMAIN f : Len(q) = Len(p) + 1 /\ IsPrefix(p, q)}

ChildNames(f, p) == {q[Len(q)] : q \in Children(f, p)}

\* the orders in which a directory_iterator may deliver the entries
Orders(S) ==
    {o \in [1..Cardinality(S) -> S] :
        \A i, j \in 1..Cardinality(S) : o[i] = o[j] => i = j}

\* out << entry.path().filename().string() << "\n" for every entry
RECURSIVE Lines(_)
Lines(names) ==
    IF names = <<>> THEN "" ELSE Head(names) \o "\n" \o Lines(Tail(names))

\* the file system with p set to node n
Put(f, p, n) == [q \in DOMAIN f \cup {p} |-> IF q = p THEN n ELSE f[q]]

\* the file system without p and everything below it
Prune(f, p) == [q \in {q \in DOMAIN f : ~IsPrefix(p, q)} |-> f[q]]

\* std::ofstream(path, append ? std::ios::app : std::ios::trunc): an
\* existing file is opened (and emptied unless appending), a missing file
\* in an existing directory is created, anything else does not open
OpenForWrite(f, path, append) ==
    LET r == Resolve(f, <<>>, path)
    IN  IF r.kind = "file"
        THEN [ok |-> TRUE, p |-> r.p,
              fs |-> IF append THEN f ELSE Put(f, r.p, File(""))]
        ELSE IF r.kind = "absent"
        THEN [ok |-> TRUE, p |-> r.p, fs |-> Put(f, r.p, File(""))]
        ELSE [ok |-> FALSE, p |-> r.p, fs |-> f]

\* file << text
WriteTo(f, p, text) == Put(f, p, File(f[p].data \o text))

\* what a command function leaves behind: the file system, cwd, the text it
\* wrote to its stream, its return value, whether it threw
Done(f, c, text, r) ==
    [fs |-> f, cwd |-> c, text |-> text, ret |-> r, threw |-> FALSE]

Thrown(f, c) ==
    [fs |-> f, cwd |-> c, text |-> "", ret |-> NoRet, threw |-> TRUE]

\* Shell::ls; fs::path(args[1]) is relative to the directory of the process
ls(f, c, args) ==
    LET dir == IF Len(args) > 1 THEN PathOf(args[2]) ELSE c
        r == Resolve(f, <<>>, dir)
    IN  IF ~Exists(r) THEN {Done(f, c, "", 1)}
        ELSE IF r.kind = "file" THEN {Thrown(f, c)}
        ELSE {Done(f, c, Lines(o), 0) : o \in Orders(ChildNames(f, r.p))}

\* Shell::cat.  An ifstream opens a directory on some systems (and then
\* reads nothing) and not on others.  The source is opened before the
\* target, so a target that is the source is emptied before it is read
\* unless appending.
cat(f, c, args, output_file, append) ==
    IF Len(args) < 2 THEN {Done(f, c, "", 1)}
    ELSE
      LET src == Resolve(f, <<>>, c \o PathOf(args[2]))
          w == OpenForWrite(f, c \o PathOf(output_file), append)
          Copy(text) ==
              IF output_file = "" THEN Done(f, c, text, 0)
              ELSE IF ~w.ok THEN Done(f, c, "", 0)
              ELSE Done(WriteTo(w.fs, w.p, text), c, "", 0)
      IN  IF src.kind = "file"
          THEN {Copy(IF output_file # "" /\ w.ok
                        THEN w.fs[src.p].data ELSE f[src.p].data)}
          ELSE IF src.kind = "dir" THEN {Done(f, c, "", 1), Copy("")}
          ELSE {Done(f, c, "", 1)}

\* Shell::mkdir; create_directory returns false for an existing directory
\* and throws on every other failure
mkdir(f, c, args) ==
    IF Len(args) < 2 THEN {Done(f, c, "", 1)}
    ELSE
      LET r == Resolve(f, <<>>, c \o PathOf(args[2]))
      IN  IF r.kind = "absent" THEN {Done(Put(f, r.p, Dir), c, "", 0)}
          ELSE IF r.kind = "dir" THEN {Done(f, c, "", 1)}
          ELSE {Thrown(f, c)}

\* Shell::rmdir; remove_all deletes the path and everything below it and
\* returns the number of deleted entries; with a file on the way to the
\* path it returns 0 in some library versions and throws in others
rmdir(f, c, args) ==
    IF Len(args) < 2 THEN {Done(f, c, "", 1)}
    ELSE
      LET r == Resolve(f, <<>>, c \o PathOf(args[2]))
      IN  IF Exists(r) THEN {Done(Prune(f, r.p), c, "", 0)}
          ELSE IF r.kind = "enotdir" THEN {Done(f, c, "", 1), Thrown(f, c)}
          ELSE {Done(f, c, "", 1)}

\* Shell::rm; remove deletes a file or an empty directory, returns false for
\* a missing path and throws on every other failure
rm(f, c, args) ==
    IF Len(args) < 2 THEN {Done(f, c, "", 1)}
    ELSE
      LET r == Resolve(f, <<>>, c \o PathOf(args[2]))
      IN  IF r.kind = "file" \/ (r.kind = "dir" /\ Children(f, r.p) = {})
          THEN {Done(Prune(f, r.p), c, "", 0)}
          ELSE IF r.kind \in {"absent", "enoent"} THEN {Done(f, c, "", 1)}
          ELSE {Thrown(f, c)}

\* Shell::cd
cd(f, c, args) ==
    IF Len(args) < 2 THEN {Done(f, c, "", 1)}
    ELSE
      LET currentPath == c \o PathOf(args[2])
      IN  IF Resolve(f, <<>>, currentPath).kind = "dir"
          THEN {Done(f, currentPath, "", 0)}
          ELSE {Done(f, c, "", 1)}

\* Shell::echo
echo(f, c, args) ==
    {Done(f, c,
          Concat([i \in 1..(Len(args) - 1) |-> args[i + 1] \o " "]) \o "\n",
          0)}

\* the index of the first word ">" or ">>", 0 when there is none
RedirectAt(args) ==
    IF \E i \in 1..Len(args) : args[i] \in {">", ">>"}
    THEN CHOOSE i \in 1..Len(args) :
            /\ args[i] \in {">", ">>"}
            /\ \A j \in 1..(i - 1) : args[j] \notin {">", ">>"}
    ELSE 0

\* Shell::ExecuteCommand: the outcomes of the call for command line `line`
\* with file system f and Shell::cwd c
ExecuteCommand(f, c, line) ==
    LET all == Tokenize(line)
        i == RedirectAt(all)
        Result(f2, c2, text, r, th) ==
            [fs |-> f2, cwd |-> c2, out |-> text, ret |-> r, threw |-> th]
    IN  IF all = <<>> THEN {Result(f, c, Prompt(line), 1, FALSE)}
        ELSE IF i > 0 /\ i = Len(all)
        THEN {Result(f, c, Prompt(line), 1, FALSE)}
        ELSE
          LET cmd == all[1]
              output_file == IF i > 0 THEN all[i + 1] ELSE ""
              append == i > 0 /\ all[i] = ">>"
              args == IF i > 0 THEN SubSeq(all, 1, i - 1) ELSE all
              ran == CASE cmd = "ls" -> ls(f, c, args)
                       [] cmd = "cat" -> cat(f, c, args, output_file, append)
                       [] cmd = "mkdir" -> mkdir(f, c, args)
                       [] cmd = "rmdir" -> rmdir(f, c, args)
                       [] cmd = "rm" -> rm(f, c, args)
                       [] cmd = "cd" -> cd(f, c, args)
                       [] cmd = "echo" -> echo(f, c, args)
                       [] OTHER -> {Done(f, c, "", 1)}
              written == cmd = "cat"
              Finish(d) ==
                  IF d.threw
                  THEN Result(d.fs, d.cwd, Prompt(line), NoRet, TRUE)
                  ELSE IF output_file # "" /\ ~written
                  THEN LET w == OpenForWrite(d.fs, d.cwd \o PathOf(output_file),
                                             append)
                       IN  IF ~w.ok
                           THEN Result(d.fs, d.cwd, Prompt(line), 1, FALSE)
                           ELSE Result(WriteTo(w.fs, w.p, d.text), d.cwd,
                                       Prompt(line), d.ret, FALSE)
                  ELSE Result(d.fs, d.cwd, Prompt(line) \o d.text, d.ret,
                              FALSE)
          IN  {Finish(d) : d \in ran}

\* the command lines given to the shell
CommandLines ==
    {<<>>, <<" ">>, <<"foo">>,
     <<"ls">>, <<"ls", " ", "d">>, <<"ls", " ", "f">>,
     <<"ls", " ", ">", " ", "f">>, <<"ls", " ", ">>", " ", "f">>,
     <<"cat">>, <<"cat", " ", "f">>, <<"cat", " ", "d">>,
     <<"cat", " ", "f", " ", ">", " ", "d">>,
     <<"cat", " ", "f", " ", ">>", " ", "d">>,
     <<"cat", " ", "f", " ", ">", " ", "f">>,
     <<"cat", " ", "d", " ", ">", " ", "f">>,
     <<"mkdir">>, <<"mkdir", " ", "d">>, <<"mkdir", " ", "d/d">>,
     <<"rmdir">>, <<"rmdir", " ", "d">>, <<"rmdir", " ", "f">>,
     <<"rm">>, <<"rm", " ", "f">>, <<"rm", " ", "d">>,
     <<"cd">>, <<"cd", " ", "d">>, <<"cd", " ", "..">>,
     <<"echo", " ", "x">>, <<"echo", " ", " ", "x", " ">>,
     <<"echo", " ", "x", " ", ">", " ", "f">>,
     <<"echo", " ", "x", " ", ">>", " ", "f">>,
     <<"echo", " ", "x", " ", ">", " ", "d">>,
     <<"echo", " ", "x", " ", ">">>,
     <<"echo", " ", "x", " ", ">", " ", "f", " ", ">", " ", "d">>,
     <<"foo", " ", ">", " ", "f">>}

\* the file system and cwd stay within the bounds the model follows
WithinBounds(f, c) ==
    /\ Len(c) <= MaxCwdLen
    /\ \A p \in DOMAIN f : Len(p) <= MaxDepth /\ Len(f[p].data) <= MaxFileLen

\* one call shell.ExecuteCommand(line, out); an exception that leaves the
\* call ends the process (main catches nothing)
Execute(line) ==
    /\ ~threw
    /\ \E o \in ExecuteCommand(fs, cwd, line) :
          /\ WithinBounds(o.fs, o.cwd)
          /\ fs' = o.fs
          /\ cwd' = o.cwd
          /\ out' = o.out
          /\ ret' = o.ret
          /\ threw' = o.threw
    /\ command' = line
    /\ fsPre' = fs
    /\ cwdPre' = cwd
    /\ UNCHANGED <<poolVars, threadVars, monVars, histVars, scenVars>>
    /\ NoRewait

ShellNext == \E line \in CommandLines : Execute(line)

\* the shell, given command lines one after the other
ShellSpec == Init /\ [][ShellNext]_vars

(***************************************************************************)
(* Notions the properties of the shell are stated with; they describe the  *)
(* last call of ExecuteCommand.                                            *)
(***************************************************************************)
\* a call has been made (every call writes the prompt line)
Called == out # ""

Words == Tokenize(command)

\* the words before the first redirect
Args == IF RedirectAt(Words) > 0
        THEN SubSeq(Words, 1, RedirectAt(Words) - 1) ELSE Words

\* what the path argument named when the call began
ArgTarget == Resolve(fsPre, <<>>, cwdPre \o PathOf(Args[2]))

KnownCommands == {"ls", "cat", "mkdir", "rmdir", "rm", "cd", "echo"}

OutputCommands == {"ls", "cat", "echo"}

\* the error cases: no or an unknown command, a missing argument or
\* redirect target, rmdir or cd of a directory that does not exist, ls of a
\* path that is not a directory, mkdir below a missing parent, a redirect
\* target that cannot be opened
ErrorCase ==
    \/ Words = <<>>
    \/ Words # <<>> /\ Words[1] \notin KnownCommands
    \/ Words # <<>> /\ RedirectAt(Words) = Len(Words)
    \/ /\ Words # <<>>
       /\ Words[1] \in {"cat", "mkdir", "rmdir", "rm", "cd"}
       /\ Len(Args) < 2
    \/ /\ Len(Args) >= 2
       /\ Words[1] \in {"rmdir", "cd"}
       /\ ~Exists(ArgTarget)
    \/ /\ Len(Args) >= 2
       /\ Words[1] = "ls"
       /\ Resolve(fsPre, <<>>, PathOf(Args[2])).kind # "dir"
    \/ /\ Len(Args) >= 2
       /\ Words[1] = "mkdir"
       /\ ArgTarget.kind \in {"enoent", "enotdir"}
    \/ /\ Words # <<>>
       /\ Words[1] \in OutputCommands
       /\ RedirectAt(Words) > 0
       /\ RedirectAt(Words) < Len(Words)
       /\ ~OpenForWrite(fsPre,
                        cwdPre \o PathOf(Words[RedirectAt(Words) + 1]),
                        TRUE).ok

(***************************************************************************)
(* C13.  Every call of ExecuteCommand returns 0 or 1, never leaves by an   *)
(* exception, and returns 1 in every error case.                           *)
(***************************************************************************)
ReturnsOneOnError ==
    Called => /\ ~threw
              /\ ret \in {0, 1}
              /\ ErrorCase => ret = 1

\* the line ends with "> file" or ">> file" after an output command
EndsWithRedirect ==
    /\ Len(Words) >= 3
    /\ Words[Len(Words) - 1] \in {">", ">>"}
    /\ Words[1] \in OutputCommands

RedirectFile == Words[Len(Words)]

RedirectAppends == Words[Len(Words) - 1] = ">>"

\* the texts the command of the line writes when it is not redirected
OutputsOf(f, c, words) ==
    CASE words[1] = "ls" -> {d.text : d \in ls(f, c, words)}
      [] words[1] = "cat" -> {d.text : d \in cat(f, c, words, "", FALSE)}
      [] words[1] = "echo" -> {d.text : d \in echo(f, c, words)}

\* the redirect target when the call began, and its content then
OldTarget == Resolve(fsPre, <<>>, cwdPre \o PathOf(RedirectFile))

OldContent == IF OldTarget.kind = "file" THEN fsPre[OldTarget.p].data ELSE ""

(***************************************************************************)
(* C14.  After a call that returned 0 and whose line is an output command  *)
(* (ls, cat, echo) ending with "> file" or ">> file", the file being one   *)
(* that can be opened for writing, the file holds exactly the command's    *)
(* output (after ">") or its old content followed by the command's output  *)
(* (after ">>"), and out received nothing but the prompt line.             *)
(***************************************************************************)
RedirectWritesFile ==
    (Called /\ ret = 0 /\ EndsWithRedirect
        /\ OldTarget.kind \in {"file", "absent"})
    => /\ out = Prompt(command)
       /\ OldTarget.p \in DOMAIN fs
       /\ ~fs[OldTarget.p].dir
       /\ \E text \in OutputsOf(fsPre, cwdPre,
                                SubSeq(Words, 1, Len(Words) - 2)) :
             fs[OldTarget.p].data =
                (IF RedirectAppends THEN OldContent ELSE "") \o text

\* the same for the lines with one redirect and a target that is not the
\* file cat reads
RedirectWritesFileOnce ==
    (RedirectAt(Words) = Len(Words) - 1
        /\ ~(Words[1] = "cat" /\ Len(Args) >= 2 /\ ArgTarget.p = OldTarget.p))
    => RedirectWritesFile

(***************************************************************************)
(* C15.  "rmdir <directory>" returns 0 exactly when the directory exists   *)
(* and has no entries, and then the directory is gone; a directory with    *)
(* entries is still there afterwards; a path that does not exist yields 1. *)
(***************************************************************************)
RmdirDeletesOnlyEmpty ==
    (Called /\ Len(Args) >= 2 /\ Words[1] = "rmdir")
    => /\ ret = 0 <=> (ArgTarget.kind = "dir"
                         /\ Children(fsPre, ArgTarget.p) = {})
       /\ ret = 0 => ArgTarget.p \notin DOMAIN fs
       /\ (ArgTarget.kind = "dir" /\ Children(fsPre, ArgTarget.p) # {})
             => \A q \in DOMAIN fsPre :
                   IsPrefix(ArgTarget.p, q) => q \in DOMAIN fs
       /\ ~Exists(ArgTarget) => ret = 1

\* rmdir of an existing empty directory, and of a missing path, do as the
\* claim says
RmdirOfEmptyOrMissing ==
    (Called /\ Len(Args) >= 2 /\ Words[1] = "rmdir" /\ ~threw
        /\ ~(ArgTarget.kind = "dir" /\ Children(fsPre, ArgTarget.p) # {})
        /\ ArgTarget.kind # "file")
    => RmdirDeletesOnlyEmpty

(***************************************************************************)
(* C16.  Whenever no thread is inside the locked section, free_ > 0 and an  *)
(* empty idle cache imply ConnectionsAlive() < PoolSize(); and a thread is *)
(* in the creation branch of GetConnection only while fewer than           *)
(* PoolSize() connections have been created.                               *)
(***************************************************************************)
RoomWhenFreeAndNoIdle ==
    /\ (Quiescent /\ free_ > 0 /\ connections_ = <<>>)
          => ConnectionsAlive < PoolSize
    /\ \A t \in Threads :
          pc[t] = "get_make" => connectionsAlive_ < poolSize_

\* a thread is in the creation branch after another connection has been
\* created and a FreeConnection call has completed
RoomWhenFreeAndNoIdleWitness ==
    /\ \E t \in Threads : pc[t] = "get_make"
    /\ connectionsAlive_ >= 1
    /\ freesCompleted >= 1

\* the threads that are asleep in cv_.wait before a step and not after it
WokenByStep == {w \in Threads : pc[w] = "get_blocked" /\ pc'[w] # "get_blocked"}

\* what the steps of a FreeConnection call by thread t do
FreeStepEffect(t) ==
    /\ (pc[t] = "free_push" /\ pc'[t] = "free_inc")
          => /\ conn[t] # 0
             /\ connections_' = Append(connections_, conn[t])
             /\ free_' = free_
             /\ WokenByStep = {}
    /\ (pc[t] = "free_inc" /\ pc'[t] = "free_notify")
          => /\ free_' = free_ + 1
             /\ connections_' = connections_
             /\ WokenByStep = {}
    /\ (pc[t] = "free_notify" /\ pc'[t] = "idle")
          => /\ free_' = free_
             /\ connections_' = connections_
             /\ WokenByStep \subseteq cvWaiters
             /\ cvWaiters' = cvWaiters \ WokenByStep
             /\ Cardinality(WokenByStep) = IF cvWaiters = {} THEN 0 ELSE 1
             /\ \A w \in Threads \ (WokenByStep \cup {t}) : pc'[w] = pc[w]

\* a thread gets past the wait only into a free slot
PassesWaitOnlyWithSlot(t) ==
    (pc[t] = "get_wait" /\ pc'[t] = "get_dec") => free_ > 0

\* every slot a FreeConnection call has added lets one call past the wait:
\* the calls that have taken a slot are as many as PoolSize() plus the
\* increments of free_ by FreeConnection, minus the slots still free
SlotsAccountedFor ==
    constructed =>
        free_ + getsReturned + createFailures
              + Cardinality({t \in Threads : InTake(t)})
        = poolSize_ + freesCompleted
              + Cardinality({t \in Threads : pc[t] = "free_notify"})

Reachable ==
    {o \in 1..Len(heap) : Holders(o) # {} \/ CachePositions(o) # {}}

(***************************************************************************)
(* C18.  ConnectionsAlive() never decreases: a step changes                *)
(* connectionsAlive_ only in the creation branch of GetConnection, and     *)
(* then by exactly +1; FreeConnection and the reuse branch leave it        *)
(* unchanged; a connection that exists keeps existing and stays in a       *)
(* caller's hands or in the idle cache.                                    *)
(***************************************************************************)
AliveNeverDecreases ==
    [][/\ connectionsAlive_' >= connectionsAlive_
       /\ connectionsAlive_' # connectionsAlive_
             => /\ connectionsAlive_' = connectionsAlive_ + 1
                /\ \E t \in Threads :
                      /\ pc[t] = "get_inc"
                      /\ pc'[t] = "get_ret"
                      /\ takeConns = <<>>
       /\ \A t \in Threads :
             (InFree(t) \/ pc[t] \in {"get_pop", "free_push"}
                 \/ (pc[t] = "get_ret" /\ takeConns # <<>>))
             /\ pc'[t] # pc[t]
             => connectionsAlive_' = connectionsAlive_
       /\ \A o \in 1..Len(heap) : o <= Len(heap') /\ heap'[o] = heap[o]
       /\ Reachable \subseteq Reachable'
       /\ Reachable = 1..Len(heap)]_vars

\* a connection has been created, released and is reused while
\* ConnectionsAlive() is 2
AliveNeverDecreasesWitness ==
    /\ connectionsAlive_ = 2
    /\ \E t \in Threads : pc[t] = "get_ret" /\ takeConns # <<>>
    /\ freesCompleted >= 1

(***************************************************************************)
(* C19.  Every GetConnection call that returns yields a non-empty handle   *)
(* (it refers to a created connection), and the idle cache never holds an  *)
(* empty handle.                                                           *)
(***************************************************************************)
ReturnsNonEmptyHandle ==
    /\ \A t \in Threads :
          pc[t] \in {"get_ret", "use", "free_push"} => conn[t] \in 1..Len(heap)
    /\ \A i \in 1..Len(connections_) : connections_[i] # 0

\* two threads use connections that GetConnection returned, one of them a
\* released connection taken from the idle cache
ReturnsNonEmptyHandleWitness ==
    /\ lastOp = "get"
    /\ takeConns # <<>>
    /\ \E t, u \in Threads :
          /\ t # u
          /\ pc[t] = "use"
          /\ pc[u] = "use"
          /\ conn[t] \in released
          /\ conn[u] # 0

\* the connections that callers hold
CheckedOut == {o \in 1..Len(heap) : Holders(o) # {}}

(***************************************************************************)
(* C20.  While no creation has failed, whenever no thread is inside the    *)
(* locked section free_ <= poolSize_ and poolSize_ - free_ is the number   *)
(* of connections callers hold: ConnectionsInUse() reports that number and *)
(* its unsigned subtraction does not wrap.                                 *)
(***************************************************************************)
InUseCountsCheckedOut ==
    (Quiescent /\ createFailures = 0)
    => /\ free_ <= poolSize_
       /\ poolSize_ - free_ = Cardinality(CheckedOut)
       /\ ConnectionsInUse = Cardinality(CheckedOut)
       /\ Cardinality(CheckedOut) = Cardinality({t \in Threads : conn[t] # 0})

\* no thread is in a locked section, two connections are checked out, one of
\* them after an earlier release, and a third caller is asleep
InUseCountsCheckedOutWitness ==
    /\ Quiescent
    /\ createFailures = 0
    /\ Cardinality(CheckedOut) = 2
    /\ freesCompleted >= 1
    /\ \E t \in Threads : pc[t] = "get_blocked"

\* thread t runs --free_ with a slot to take, and the counter does not wrap
DecrementStep(t) ==
    (pc[t] = "get_dec" /\ pc'[t] # "get_dec")
       => /\ free_ > 0
          /\ free_' = free_ - 1
          /\ free_' < SIZE_MAX

\* free_ gets lower (or wraps to SIZE_MAX) only where a thread runs --free_
LoweredOnlyByDecrement ==
    (free_' < free_ \/ (free_' = SIZE_MAX /\ free_ # SIZE_MAX))
       => \E t \in Threads : pc[t] = "get_dec" /\ pc'[t] # "get_dec"

\* thread t, awake again under the mutex, tests the predicate with no slot
\* left and goes back to sleep
RewaitStep(t) ==
    (recheck = t /\ pc[t] = "get_wait" /\ free_ = 0 /\ pc'[t] # "get_wait")
       => /\ pc'[t] = "get_blocked"
          /\ t \in cvWaiters'
          /\ mt_' = 0
          /\ UNCHANGED <<constructed, poolSize_, free_, connectionsAlive_,
                         connections_, heap, conn, calls>>

\* a thread that is about to run --free_ holds the mutex and has a slot
DecrementHasSlot ==
    \A t \in Threads : pc[t] = "get_dec" => (mt_ = t /\ free_ > 0)

(***************************************************************************)
(* C21.  free_ is never decremented while it is 0, whatever the            *)
(* interleaving: every --free_ runs with free_ > 0 and leaves free_ - 1    *)
(* (no wrap-around to SIZE_MAX), no other step lowers free_; and a waiter  *)
(* that wakes (notified or spuriously), takes the mutex again and finds    *)
(* free_ = 0 because another thread took the slot goes back to waiting     *)
(* with the pool's state unchanged.                                        *)
(***************************************************************************)
NeverDecrementsAtZero ==
    /\ [][/\ \A t \in Threads : DecrementStep(t) /\ RewaitStep(t)
          /\ LoweredOnlyByDecrement]_vars
    /\ []DecrementHasSlot

\* a waiter woken by a FreeConnection call found the slot taken by a thread
\* that got the mutex first, and has just gone back to waiting
NeverDecrementsAtZeroWitness ==
    /\ freesCompleted >= 1
    /\ getsReturned >= 2
    /\ lastOp = "get"
    /\ free_ = 0
    /\ \E w \in Threads :
          /\ rewaited = w
          /\ pc[w] = "get_blocked"
          /\ w \in cvWaiters
          /\ mt_ = 0

====
